---- MODULE Spec2Model ----
(***************************************************************************)
(* A model of smtool: the genonce command (newParams, generateNonce,       *)
(* saveMetadata) and the parsePost command (load, read), as found in the   *)
(* two builds of the repository: src/unnamed/part_000 and src/main.go.     *)
(*                                                                         *)
(* 64-bit unsigned integers are scaled to WordBits bits; all arithmetic on *)
(* them is taken modulo 2^WordBits, as Go's uint64 arithmetic is modulo    *)
(* 2^64.  The batch size is a power of two, 2^BatchBits, as the library's  *)
(* default compute batch size is.                                          *)
(***************************************************************************)
EXTENDS Integers, Sequences, FiniteSets, TLC

\* ------------------------------------------------------------------ bounds

\* width of the scaled uint64
WordBits == 4
\* log2 of the scaled batch size
BatchBits == 2
\* largest numUnits / labelsPerUnit a metadata file of the model holds
MaxUnits == 2
MaxLabelsPerUnit == 4
\* number of oracle range scans after which the model stops following a run
MaxCalls == 6
\* longest payload the files of the model are built from
MaxPayload == 2

\* ------------------------------------------------------------ uint64 words

RECURSIVE Pow2(_)
Pow2(n) == IF n = 0 THEN 1 ELSE 2 * Pow2(n - 1)

Modulus == Pow2(WordBits)

\* math.MaxUint64
MaxUint64 == Modulus - 1

U64(x) == x % Modulus

\* batchSize := uint64(config.DefaultComputeBatchSize)
batchSize == Pow2(BatchBits)

\* a nil pointer and a pointer to a value (atomic.Pointer[uint64], *uint64)
Nil == <<>>
Ptr(v) == <<v>>
Deref(ptr) == ptr[1]

\* ------------------------------------------------------------------- state

VARIABLES
    build,      \* which source file is built: "part_000" or "main.go"
    disk,       \* the metadata file in the data directory
    disk0,      \* the metadata file as it was when the command started
    p,          \* the params value of the run
    pc,         \* position of the genonce command
    i,          \* loop variable of generateNonce
    session,    \* the work oracle: "none", "open" or "closed"
    closes,     \* number of wo.Close() calls
    calls,      \* the wo.Positions calls made, in order, with their results
    saves,      \* the SaveMetadata calls made, in order, with their results
    stores,     \* the values stored to p.lastPosition, in order
    ret,        \* what generateNonce returned
    out,        \* what the command printed
    rfile,      \* parsePost: the bytes of the file at --path
    rkind,      \* parsePost: how that file was made: "valid", "corrupt", "short"
    rpc,        \* parsePost: position of the command
    data,       \* read: the payload buffer
    off,        \* read: the file offset
    checksum,   \* read: the running CRC-64 (hash.Hash64)
    saved,      \* read: the 8-byte buffer of the stored checksum
    nreads,     \* read: bytes returned by the two Read calls
    rres,       \* read: what read returned
    post        \* parsePost: what load decoded and what was dumped

ctlVars == <<build, disk, disk0, p, pc, i, session, closes, calls, saves, stores, ret, out>>
rdVars == <<rfile, rkind, rpc, data, off, checksum, saved, nreads, rres, post>>
vars == <<ctlVars, rdVars>>

\* ------------------------------------------------------------ CRC-64 (ISO)

\* A uint64 of the checksum is the set of its one bits, bit 0 the least
\* significant, so that the 64-bit width is kept exactly.
Xor(a, b) == (a \ b) \cup (b \ a)
Shr(a, n) == {k - n : k \in {j \in a : j >= n}}
Not64(a) == (0..63) \ a

\* the one bits of a byte, and the byte of the low eight bits of a word
ByteBits(b) == {k \in 0..7 : (b \div Pow2(k)) % 2 = 1}
RECURSIVE LowBits(_, _)
LowBits(a, k) == IF k = 8 THEN 0 ELSE (IF k \in a THEN Pow2(k) ELSE 0) + LowBits(a, k + 1)
LowByte(a) == LowBits(a, 0)

\* crc64.ISO = 0xD800000000000000
ISO == {63, 62, 60, 59}

\* crc64.MakeTable(crc64.ISO): eight shift steps per table entry
RECURSIVE TableStep(_, _)
TableStep(crc, j) ==
    IF j = 0 THEN crc
    ELSE TableStep(IF 0 \in crc THEN Xor(Shr(crc, 1), ISO) ELSE Shr(crc, 1), j - 1)
MakeTable == [n \in 0..255 |-> TableStep(ByteBits(n), 8)]

\* the loop of the digest's Write: crc = tab[byte(crc)^v] ^ (crc >> 8)
RECURSIVE UpdateLoop(_, _)
UpdateLoop(crc, bytes) ==
    IF bytes = <<>> THEN crc
    ELSE UpdateLoop(Xor(MakeTable[LowByte(Xor(crc, ByteBits(Head(bytes))))], Shr(crc, 8)),
                    Tail(bytes))

\* checksum.Write(bytes) on a digest holding crc; Sum64 is the value held
Update(crc, bytes) == Not64(UpdateLoop(Not64(crc), bytes))

\* crc64.Checksum of a whole byte string
Crc64(bytes) == Update({}, bytes)

\* binary.BigEndian.Uint64(saved) and its inverse, the eight bytes of a word
Uint64BE(b) == UNION {{(64 - 8 * k) + j : j \in ByteBits(b[k])} : k \in 1..8}
BE64(a) == [k \in 1..8 |-> LowByte(Shr(a, 64 - 8 * k))]

\* ------------------------------------------------------- parsePost: inputs

\* crc64.Size
Crc64Size == 8

Zeros(n) == [k \in 1..n |-> 0]

ByteValues == {0, 255}
RECURSIVE SeqsUpTo(_)
SeqsUpTo(n) ==
    IF n = 0 THEN {<<>>}
    ELSE LET shorter == SeqsUpTo(n - 1)
         IN shorter \cup {Append(q, b) : q \in {r \in shorter : Len(r) = n - 1}, b \in ByteValues}

\* payload || BE64(crc64-iso(payload))
WriteFile(payload) == payload \o BE64(Crc64(payload))

\* payloads: short byte strings, and whole checksummed files of them
Payloads == SeqsUpTo(MaxPayload) \cup {WriteFile(q) : q \in SeqsUpTo(MaxPayload)}
ValidFiles == {WriteFile(q) : q \in Payloads}

\* one byte of a file changed to another value
Deltas == {1, 128}
CorruptAt(f, pos, d) == [f EXCEPT ![pos] = (f[pos] + d) % 256]
CorruptFiles ==
    UNION {{CorruptAt(f, pos, d) : pos \in 1..Len(f), d \in Deltas} : f \in ValidFiles}
ShortFiles == {SubSeq(WriteFile(q), 1, n) : q \in SeqsUpTo(MaxPayload), n \in 0..(Crc64Size - 1)}

\* the layout of a file: everything but the last eight bytes, and those
PayloadOf(f) == SubSeq(f, 1, Len(f) - Crc64Size)
StoredChecksum(f) == SubSeq(f, Len(f) - Crc64Size + 1, Len(f))

\* --------------------------------------------------------- genonce: inputs

Builds == {"part_000", "main.go"}

\* the optional uint64 fields a metadata file may hold
OptPositions == {Nil} \cup {Ptr(x) : x \in {0, 1, batchSize, MaxUint64 - 1}}
OptNonces == {Nil, Ptr(1)}
NonceValues == {<<>>, <<9>>}
NodeIds == {"node1", "node2"}

\* shared.PostMetadata, as stored in postdata_metadata.json
Metadatas ==
    [NodeId : NodeIds, CommitmentAtxId : {"atx1"},
     LabelsPerUnit : 0..MaxLabelsPerUnit, NumUnits : 1..MaxUnits, MaxFileSize : {8},
     Nonce : OptNonces, LastPosition : OptPositions, NonceValue : NonceValues]

\* the file system at --path: no such directory, a metadata file that does
\* not load, or a metadata file holding m
Disks ==
    {[state |-> "missing"], [state |-> "unreadable"]}
        \cup {[state |-> "ok", meta |-> m] : m \in Metadatas}

\* params{}: the zero value
ZeroParams ==
    [nodeId |-> "", commitmentAtxId |-> "", labelsPerUnit |-> 0, numUnits |-> 0,
     maxFileSize |-> 0, dataDir |-> "", logger |-> FALSE,
     lastPosition |-> Nil, nonce |-> Nil, nonceValue |-> Nil]

\* fileExists(filepath)
fileExists(d) == d.state # "missing"

\* NewParamsLiteral carrying the stored NonceValue over into params
NewParamsLiteral_CopiesNonceValue(b, m) ==
    [nodeId |-> m.NodeId, commitmentAtxId |-> m.CommitmentAtxId,
     labelsPerUnit |-> m.LabelsPerUnit, numUnits |-> m.NumUnits,
     maxFileSize |-> m.MaxFileSize,
     dataDir |-> IF b = "part_000" THEN "path" ELSE "",
     logger |-> (b = "part_000"),
     lastPosition |-> Nil, nonce |-> Nil,
     nonceValue |-> IF m.NonceValue # <<>> THEN Ptr(m.NonceValue) ELSE Nil]

\* the params literal returned by newParams; main.go sets neither logger nor
\* dataDir, and neither build copies LastPosition, Nonce or NonceValue
NewParamsLiteral(b, m) ==
    [nodeId |-> m.NodeId, commitmentAtxId |-> m.CommitmentAtxId,
     labelsPerUnit |-> m.LabelsPerUnit, numUnits |-> m.NumUnits,
     maxFileSize |-> m.MaxFileSize,
     dataDir |-> IF b = "part_000" THEN "path" ELSE "",
     logger |-> (b = "part_000"),
     lastPosition |-> Nil, nonce |-> Nil, nonceValue |-> Nil]

\* whether newParams checks metadata.Nonce (part_000 lines 172-174; main.go
\* has no such check)
NonceGuard(b, m) == b = "part_000" /\ m.Nonce # Nil

\* numLabels := uint64(p.numUnits) * p.labelsPerUnit
numLabels(q) == U64(q.numUnits * q.labelsPerUnit)

\* SaveRecord with the MaxFileSize field left out of the literal
SaveRecord_NoMaxFileSize(q) ==
    [NodeId |-> q.nodeId, CommitmentAtxId |-> q.commitmentAtxId,
     LabelsPerUnit |-> q.labelsPerUnit, NumUnits |-> q.numUnits,
     MaxFileSize |-> 0,
     Nonce |-> q.nonce, LastPosition |-> q.lastPosition,
     NonceValue |-> IF q.nonceValue # Nil THEN Deref(q.nonceValue) ELSE <<>>]

\* the shared.PostMetadata value built by saveMetadata
SaveRecord(q) ==
    [NodeId |-> q.nodeId, CommitmentAtxId |-> q.commitmentAtxId,
     LabelsPerUnit |-> q.labelsPerUnit, NumUnits |-> q.numUnits,
     MaxFileSize |-> q.maxFileSize,
     Nonce |-> q.nonce, LastPosition |-> q.lastPosition,
     NonceValue |-> IF q.nonceValue # Nil THEN Deref(q.nonceValue) ELSE <<>>]

\* the range end passed to wo.Positions: i+batchSize-1
RangeEnd(x) == U64(x + batchSize - 1)

\* the loop increment: i += batchSize
NextBatch(x) == U64(x + batchSize)

\* the loop condition: i < math.MaxUint64
LoopCond(x) == x < MaxUint64

\* whether the lastPosition initialisation fires (part_000 line 235)
NeedsInit(q) == q.lastPosition = Nil \/ Deref(q.lastPosition) < numLabels(q)

\* ------------------------------------------------------- genonce: actions

CtlInit ==
    /\ build \in Builds
    /\ disk \in Disks
    /\ disk0 = disk
    /\ p = ZeroParams
    /\ pc = "newParams"
    /\ i = 0
    /\ session = "none"
    /\ closes = 0
    /\ calls = <<>>
    /\ saves = <<>>
    /\ stores = <<>>
    /\ ret = "none"
    /\ out = <<>>

\* genonce.Run up to the call of generateNonce: newParams and the handling of
\* its error
NewParams ==
    /\ pc = "newParams"
    /\ IF ~fileExists(disk)
         THEN /\ out' = <<"failed to new params: postdata_metedata does not exist in directory">>
              /\ pc' = "done"
              /\ p' = p
       ELSE IF disk.state = "unreadable"
         THEN /\ out' = <<"failed to new params: load">>
              /\ pc' = "done"
              /\ p' = p
       ELSE IF NonceGuard(build, disk.meta)
         THEN /\ out' = <<"nonce is exists">>
              /\ pc' = "done"
              /\ p' = p
       ELSE /\ out' = out
            /\ pc' = "oracleNew"
            /\ p' = NewParamsLiteral(build, disk.meta)
    /\ UNCHANGED rdVars
    /\ UNCHANGED <<build, disk, disk0, i, session, closes, calls, saves, stores, ret>>

\* oracle.New succeeds: the session is open and wo.Close is deferred
OracleNewOk ==
    /\ pc = "oracleNew"
    /\ session' = "open"
    /\ pc' = "logInfo"
    /\ UNCHANGED rdVars
    /\ UNCHANGED <<build, disk, disk0, p, i, closes, calls, saves, stores, ret, out>>

\* oracle.New fails: generateNonce returns the error at once
OracleNewErr ==
    /\ pc = "oracleNew"
    /\ ret' = "oracleNewError"
    /\ pc' = "returned"
    /\ UNCHANGED rdVars
    /\ UNCHANGED <<build, disk, disk0, p, i, session, closes, calls, saves, stores, out>>

\* p.logger.Info, the lastPosition initialisation, defer p.saveMetadata() and
\* the loop's i := 0
InitLastPosition ==
    /\ pc = "logInfo"
    /\ IF NeedsInit(p)
         THEN /\ p' = [p EXCEPT !.lastPosition = Ptr(numLabels(p))]
              /\ stores' = Append(stores, numLabels(p))
         ELSE UNCHANGED <<p, stores>>
    /\ i' = 0
    /\ pc' = "loopCond"
    /\ UNCHANGED rdVars
    /\ UNCHANGED <<build, disk, disk0, session, closes, calls, saves, ret, out>>

\* p.logger.Info on the nil logger main.go leaves in params: the call may
\* panic; the deferred wo.Close runs, saveMetadata is not yet deferred
NilLoggerPanic ==
    /\ pc = "logInfo"
    /\ ~p.logger
    /\ ret' = "panic"
    /\ pc' = "deferClose"
    /\ UNCHANGED rdVars
    /\ UNCHANGED <<build, disk, disk0, p, i, session, closes, calls, saves, stores, out>>

\* LoopHead with the checkpoint taken at the end of the batch, not its start
LoopHead_StoreEnd ==
    /\ pc = "loopCond"
    /\ IF LoopCond(i)
         THEN /\ p' = [p EXCEPT !.lastPosition = Ptr(RangeEnd(i))]
              /\ stores' = Append(stores, RangeEnd(i))
              /\ pc' = "positions"
              /\ ret' = ret
         ELSE /\ ret' = "nil"
              /\ pc' = "deferSave"
              /\ UNCHANGED <<p, stores>>
    /\ UNCHANGED rdVars
    /\ UNCHANGED <<build, disk, disk0, i, session, closes, calls, saves, out>>

\* the loop head, for ...; i < math.MaxUint64; ...: when the condition holds,
\* lastPos := i; p.lastPosition.Store(&lastPos); when it does not, the loop
\* ends and the function returns nil
LoopHead ==
    /\ pc = "loopCond"
    /\ IF LoopCond(i)
         THEN /\ p' = [p EXCEPT !.lastPosition = Ptr(i)]
              /\ stores' = Append(stores, i)
              /\ pc' = "positions"
              /\ ret' = ret
         ELSE /\ ret' = "nil"
              /\ pc' = "deferSave"
              /\ UNCHANGED <<p, stores>>
    /\ UNCHANGED rdVars
    /\ UNCHANGED <<build, disk, disk0, i, session, closes, calls, saves, out>>

\* PositionsErr with the error return leaving without running the deferred
\* calls, as if the save and the close were plain calls after the loop
PositionsErr_NoDefer ==
    /\ pc = "positions"
    /\ Len(calls) < MaxCalls
    /\ calls' = Append(calls, [start |-> i, end |-> RangeEnd(i), res |-> "error", nonce |-> Nil,
                               session |-> session, lastPosition |-> p.lastPosition])
    /\ ret' = "oracleError"
    /\ pc' = "returned"
    /\ UNCHANGED rdVars
    /\ UNCHANGED <<build, disk, disk0, p, i, session, closes, saves, stores, out>>

\* PositionsErr with the error logged and the loop going on to the next batch
PositionsErr_Retry ==
    /\ pc = "positions"
    /\ Len(calls) < MaxCalls
    /\ calls' = Append(calls, [start |-> i, end |-> RangeEnd(i), res |-> "error", nonce |-> Nil,
                               session |-> session, lastPosition |-> p.lastPosition])
    /\ i' = NextBatch(i)
    /\ pc' = "loopCond"
    /\ UNCHANGED rdVars
    /\ UNCHANGED <<build, disk, disk0, p, session, closes, saves, stores, ret, out>>

\* wo.Positions(i, i+batchSize-1) returns an error
PositionsErr ==
    /\ pc = "positions"
    /\ Len(calls) < MaxCalls
    /\ calls' = Append(calls, [start |-> i, end |-> RangeEnd(i), res |-> "error", nonce |-> Nil,
                               session |-> session, lastPosition |-> p.lastPosition])
    /\ ret' = "oracleError"
    /\ pc' = "deferSave"
    /\ UNCHANGED rdVars
    /\ UNCHANGED <<build, disk, disk0, p, i, session, closes, saves, stores, out>>

\* wo.Positions(i, i+batchSize-1) finds no nonce: i += batchSize
PositionsNone ==
    /\ pc = "positions"
    /\ Len(calls) < MaxCalls
    /\ calls' = Append(calls, [start |-> i, end |-> RangeEnd(i), res |-> "none", nonce |-> Nil,
                               session |-> session, lastPosition |-> p.lastPosition])
    /\ i' = NextBatch(i)
    /\ pc' = "loopCond"
    /\ UNCHANGED rdVars
    /\ UNCHANGED <<build, disk, disk0, p, session, closes, saves, stores, ret, out>>

\* PositionsNonce without the break: the nonce is stored and the loop goes on
PositionsNonce_Continue ==
    /\ pc = "positions"
    /\ Len(calls) < MaxCalls
    /\ \E v \in {i, RangeEnd(i)} :
         /\ calls' = Append(calls, [start |-> i, end |-> RangeEnd(i), res |-> "nonce",
                                    nonce |-> Ptr(v), session |-> session,
                                    lastPosition |-> p.lastPosition])
         /\ p' = [p EXCEPT !.nonce = Ptr(v)]
    /\ i' = NextBatch(i)
    /\ pc' = "loopCond"
    /\ UNCHANGED rdVars
    /\ UNCHANGED <<build, disk, disk0, session, closes, saves, stores, ret, out>>

\* wo.Positions(i, i+batchSize-1) finds a nonce in the range:
\* p.nonce.Store(res.Nonce) and the function returns nil
PositionsNonce ==
    /\ pc = "positions"
    /\ Len(calls) < MaxCalls
    /\ \E v \in {i, RangeEnd(i)} :
         /\ calls' = Append(calls, [start |-> i, end |-> RangeEnd(i), res |-> "nonce",
                                    nonce |-> Ptr(v), session |-> session,
                                    lastPosition |-> p.lastPosition])
         /\ p' = [p EXCEPT !.nonce = Ptr(v)]
    /\ ret' = "nil"
    /\ pc' = "deferSave"
    /\ UNCHANGED rdVars
    /\ UNCHANGED <<build, disk, disk0, i, session, closes, saves, stores, out>>

\* the deferred p.saveMetadata(): initialization.SaveMetadata(p.dataDir, &v)
\* writes the file or fails; the deferred call's result is dropped
SaveMetadata ==
    /\ pc = "deferSave"
    /\ \E ok \in BOOLEAN :
         LET err == IF ok THEN "nil" ELSE "saveError"
         IN /\ saves' = Append(saves, [v |-> SaveRecord(p), dataDir |-> p.dataDir,
                                       ok |-> (err = "nil"), session |-> session])
            /\ disk' = IF err = "nil" /\ p.dataDir = "path"
                         THEN [state |-> "ok", meta |-> SaveRecord(p)]
                         ELSE disk
    /\ ret' = ret
    /\ pc' = "deferClose"
    /\ UNCHANGED rdVars
    /\ UNCHANGED <<build, disk0, p, i, session, closes, calls, stores, out>>

\* the deferred wo.Close()
Close ==
    /\ pc = "deferClose"
    /\ session' = "closed"
    /\ closes' = closes + 1
    /\ pc' = IF ret = "panic" THEN "crashed" ELSE "returned"
    /\ UNCHANGED rdVars
    /\ UNCHANGED <<build, disk, disk0, p, i, calls, saves, stores, ret, out>>

\* genonce.Run after generateNonce returned
RunReport ==
    /\ pc = "returned"
    /\ out' = IF ret # "nil" THEN Append(out, "failed to generate nonce: " \o ret) ELSE out
    /\ pc' = "done"
    /\ UNCHANGED rdVars
    /\ UNCHANGED <<build, disk, disk0, p, i, session, closes, calls, saves, stores, ret>>

Next ==
    \/ NewParams
    \/ OracleNewOk
    \/ OracleNewErr
    \/ InitLastPosition
    \/ NilLoggerPanic
    \/ LoopHead
    \/ PositionsErr
    \/ PositionsNone
    \/ PositionsNonce
    \/ SaveMetadata
    \/ Close
    \/ RunReport

\* parsePost is idle while genonce runs
RdIdle ==
    /\ rfile = <<>>
    /\ rkind = "none"
    /\ rpc = "idle"
    /\ data = <<>>
    /\ off = 0
    /\ checksum = {}
    /\ saved = <<>>
    /\ nreads = <<>>
    /\ rres = [err |-> "none", data |-> <<>>]
    /\ post = [err |-> "none", dumped |-> FALSE]

Init == CtlInit /\ RdIdle


Spec == Init /\ [][Next]_vars

\* ------------------------------------------------------ genonce: properties

Last(q) == q[Len(q)]

\* the run is over: generateNonce returned to genonce.Run
Returned == pc \in {"returned", "done"}

\* generateNonce was called and returned
GenerateNonceReturned == Returned /\ ret # "none"

\* the command started from a metadata file that loads
Loaded == disk0.state = "ok"

\* C1: resumability: from metadata with no nonce and lastPosition L, the first
\* oracle call starts at L when L >= numLabels and at numLabels when L is
\* absent or below numLabels, and no oracle call starts below numLabels.
C1_Resumability ==
    (Loaded /\ disk0.meta.Nonce = Nil /\ calls # <<>>) =>
        LET L == disk0.meta.LastPosition
            N == U64(disk0.meta.NumUnits * disk0.meta.LabelsPerUnit)
        IN /\ calls[1].start = IF L # Nil /\ Deref(L) >= N THEN Deref(L) ELSE N
           /\ \A k \in DOMAIN calls : calls[k].start >= N

\* C2: guard: when the loaded metadata holds a nonce, the command opens no
\* oracle session, scans no range, and reports that the nonce exists.
C2_NonceGuard ==
    (Loaded /\ disk0.meta.Nonce # Nil) =>
        /\ session = "none"
        /\ calls = <<>>
        /\ pc = "done" => out = <<"nonce is exists">>

\* C3: end-to-end order: with no prior progress, when the first nonce is
\* reported on the batch starting at numLabels + m*batchSize, the oracle calls
\* are exactly the ranges [N + k*B, N + (k+1)*B - 1] for k = 0..m in order,
\* and the saved metadata holds a nonce and lastPosition = N + m*B.
C3_EndToEndOrder ==
    LET N == U64(disk0.meta.NumUnits * disk0.meta.LabelsPerUnit)
        B == batchSize
    IN (/\ Loaded /\ disk0.meta.Nonce = Nil /\ disk0.meta.LastPosition = Nil
        /\ GenerateNonceReturned
        /\ calls # <<>> /\ Last(calls).res = "nonce"
        /\ \E m \in 0..MaxCalls : Last(calls).start = N + m * B)
       =>
       /\ \A k \in DOMAIN calls :
            /\ calls[k].start = N + (k - 1) * B
            /\ calls[k].end = N + k * B - 1
       /\ Len(saves) = 1
       /\ saves[1].v.Nonce # Nil
       /\ saves[1].v.LastPosition = Ptr(Last(calls).start)

\* C4: save on exit: every call of generateNonce that returned has saved the
\* metadata exactly once, whichever way it returned.
C4_SaveOnExit ==
    GenerateNonceReturned => Len(saves) = 1

\* C5: session scope: a session that was opened is closed exactly once before
\* the run ends, it is never closed twice, and every range scan is made on
\* the open session.
C5_SessionScope ==
    /\ closes <= 1
    /\ (session = "closed") = (closes = 1)
    /\ pc \in {"returned", "done", "crashed"} => session \in {"none", "closed"}
    /\ \A k \in DOMAIN calls : calls[k].session = "open"
    /\ pc = "positions" => session = "open"

\* a run that opened a session, scanned twice, hit an oracle error and returned
C5_Witness ==
    /\ pc = "returned"
    /\ session = "closed"
    /\ closes = 1
    /\ Len(calls) = 2
    /\ ret = "oracleError"

\* C6: monotonicity: every store to lastPosition within a run writes a value
\* greater than or equal to the one it replaces.
C6_Monotonic ==
    \A k \in 1..(Len(stores) - 1) : stores[k + 1] >= stores[k]

\* C7: oracle error: a range scan that returns an error is the last oracle
\* call of the run, generateNonce returns that error, and the metadata saved
\* on exit holds the start of that batch as lastPosition and no nonce.
C7_OracleError ==
    /\ \A k \in DOMAIN calls : calls[k].res = "error" => k = Len(calls)
    /\ (calls # <<>> /\ Last(calls).res = "error") =>
         /\ ret = "oracleError"
         /\ pc \in {"deferSave", "deferClose", "returned", "done"}
         /\ pc # "deferSave" =>
              /\ Len(saves) = 1
              /\ saves[1].v.LastPosition = Ptr(Last(calls).start)
              /\ saves[1].v.Nonce = Nil
         /\ pc = "done" => out = <<"failed to generate nonce: oracleError">>

\* a finished run whose third range scan returned an error
C7_Witness ==
    /\ pc = "done"
    /\ Len(calls) = 3
    /\ Last(calls).res = "error"
    /\ Last(calls).start = 2 * batchSize
    /\ Len(saves) = 1

\* the caller of generateNonce can tell that the save failed
SaveFailureReported ==
    \/ ret = "saveError"
    \/ \E k \in DOMAIN out : out[k] = "failed to generate nonce: saveError"

\* C8: a failed metadata save at generateNonce exit is reported to the caller,
\* and it leaves the in-memory nonce and lastPosition as they were.
C8_SaveFailureReported ==
    (pc = "done" /\ \E k \in DOMAIN saves : ~saves[k].ok) =>
        /\ SaveFailureReported
        /\ \A k \in DOMAIN saves :
             /\ p.nonce = saves[k].v.Nonce
             /\ p.lastPosition = saves[k].v.LastPosition

\* ------------------------------------------- genonce: properties, continued

\* C13: no wrap-around: the end of every scanned range is computed without
\* overflow (end = start + batchSize - 1 >= start), and the batch start never
\* wraps: every scan starts above the scan before it.
C13_NoWrapAround ==
    /\ \A k \in DOMAIN calls :
         /\ calls[k].end = calls[k].start + batchSize - 1
         /\ calls[k].end >= calls[k].start
    /\ \A k \in 1..(Len(calls) - 1) : calls[k + 1].start > calls[k].start

\* C16: checkpoint before scan: at every range scan the in-memory
\* lastPosition is the start of the range being scanned, and the lastPosition
\* saved by a run that scanned at all is the start of its last scan.
C16_CheckpointBeforeScan ==
    /\ \A k \in DOMAIN calls : calls[k].lastPosition = Ptr(calls[k].start)
    /\ pc = "positions" => p.lastPosition = Ptr(i)
    /\ \A k \in DOMAIN saves :
         calls # <<>> => saves[k].v.LastPosition = Ptr(Last(calls).start)
    /\ (saves # <<>> /\ calls # <<>> /\ saves[1].ok /\ saves[1].dataDir = "path") =>
         disk.meta.LastPosition = Ptr(Last(calls).start)

\* a finished run that started from a stored lastPosition of 1, made three
\* range scans and wrote the metadata file
C16_Witness ==
    /\ pc = "done"
    /\ Loaded
    /\ Len(calls) = 3
    /\ Last(calls).start = 2 * batchSize
    /\ Len(saves) = 1
    /\ saves[1].ok
    /\ disk.meta.LastPosition = Ptr(2 * batchSize)
    /\ disk0.meta.LastPosition = Ptr(1)

\* C17: nonce found stops the search: a range scan that returns a nonce v is
\* the last oracle call, generateNonce returns no error, and the metadata
\* saved on exit holds nonce = v; a saved nonce is always the nonce the last
\* range scan returned.
C17_NonceStops ==
    /\ \A k \in DOMAIN calls : calls[k].res = "nonce" => k = Len(calls)
    /\ (calls # <<>> /\ Last(calls).res = "nonce") =>
         /\ ret = "nil"
         /\ p.nonce = Last(calls).nonce
         /\ pc \in {"deferSave", "deferClose", "returned", "done"}
         /\ pc # "deferSave" => Len(saves) = 1 /\ saves[1].v.Nonce = Last(calls).nonce
         /\ pc = "done" => out = <<>>
    /\ \A k \in DOMAIN saves :
         saves[k].v.Nonce # Nil =>
             /\ calls # <<>>
             /\ Last(calls).res = "nonce"
             /\ saves[k].v.Nonce = Last(calls).nonce

\* a finished run whose second range scan returned the nonce at the end of
\* its range
C17_Witness ==
    /\ pc = "done"
    /\ Len(calls) = 2
    /\ Last(calls).res = "nonce"
    /\ Last(calls).nonce = Ptr(2 * batchSize - 1)
    /\ Len(saves) = 1
    /\ saves[1].v.Nonce = Ptr(2 * batchSize - 1)

\* C18: contiguous sequential batches: every scan covers exactly batchSize
\* positions, [i, i+batchSize-1], every scan after one that found nothing
\* starts at the end of the range before it plus one, and no two scanned
\* ranges overlap.
C18_ContiguousBatches ==
    /\ \A k \in DOMAIN calls : calls[k].end - calls[k].start + 1 = batchSize
    /\ \A k \in 1..(Len(calls) - 1) :
         /\ calls[k].res = "none"
         /\ calls[k + 1].start = calls[k].end + 1
    /\ \A j, k \in DOMAIN calls :
         j < k => calls[j].end < calls[k].start

\* the identity fields of a metadata record or of params
IdentityOfMeta(m) ==
    <<m.NodeId, m.CommitmentAtxId, m.LabelsPerUnit, m.NumUnits, m.MaxFileSize>>
IdentityOfParams(q) ==
    <<q.nodeId, q.commitmentAtxId, q.labelsPerUnit, q.numUnits, q.maxFileSize>>

\* C19: identity fields are carried through unchanged: every metadata record
\* saved by generateNonce has nodeId, commitmentAtxId, labelsPerUnit, numUnits
\* and maxFileSize equal to the values loaded at start, and params keeps them
\* from newParams on.
C19_IdentityCarried ==
    /\ \A k \in DOMAIN saves : IdentityOfMeta(saves[k].v) = IdentityOfMeta(disk0.meta)
    /\ p # ZeroParams => IdentityOfParams(p) = IdentityOfMeta(disk0.meta)
    /\ (saves # <<>> /\ saves[1].ok /\ saves[1].dataDir = "path") =>
         IdentityOfMeta(disk.meta) = IdentityOfMeta(disk0.meta)

\* a run of node2 that found a nonce on its second scan and wrote the file
C19_Witness ==
    /\ pc = "done"
    /\ Len(calls) = 2
    /\ Len(saves) = 1
    /\ saves[1].ok
    /\ saves[1].v.NodeId = "node2"
    /\ saves[1].v.Nonce # Nil
    /\ disk.meta.NodeId = "node2"

\* C20: nonceValue is never produced: params.nonceValue is unset in every
\* state, and every saved metadata record has an empty nonceValue, also when
\* a nonce was found and when the loaded metadata held a nonceValue.
C20_NonceValueNeverSet ==
    /\ p.nonceValue = Nil
    /\ \A k \in DOMAIN saves : saves[k].v.NonceValue = <<>>
    /\ (saves # <<>> /\ saves[1].ok /\ saves[1].dataDir = "path") =>
         disk.meta.NonceValue = <<>>

\* a run that loaded a metadata file holding a nonceValue, found a nonce and
\* overwrote the file
C20_Witness ==
    /\ pc = "done"
    /\ Loaded
    /\ disk0.meta.NonceValue # <<>>
    /\ Len(saves) = 1
    /\ saves[1].ok
    /\ saves[1].v.Nonce # Nil
    /\ disk.meta.NonceValue = <<>>


\* ------------------------------------------------- genonce: the endless run

\* The same run with the histories cut to their last entry, so that a run of
\* any length stays within finitely many states.

\* LoopHead, keeping only the last lastPosition store
LoopHeadLive ==
    /\ pc = "loopCond"
    /\ IF LoopCond(i)
         THEN /\ p' = [p EXCEPT !.lastPosition = Ptr(i)]
              /\ stores' = <<i>>
              /\ pc' = "positions"
              /\ ret' = ret
         ELSE /\ ret' = "nil"
              /\ pc' = "deferSave"
              /\ UNCHANGED <<p, stores>>
    /\ UNCHANGED rdVars
    /\ UNCHANGED <<build, disk, disk0, i, session, closes, calls, saves, out>>

\* wo.Positions(i, i+batchSize-1) returns an error, keeping only this call
PositionsErrLive ==
    /\ pc = "positions"
    /\ calls' = <<[start |-> i, end |-> RangeEnd(i), res |-> "error", nonce |-> Nil,
                  session |-> session, lastPosition |-> p.lastPosition]>>
    /\ ret' = "oracleError"
    /\ pc' = "deferSave"
    /\ UNCHANGED rdVars
    /\ UNCHANGED <<build, disk, disk0, p, i, session, closes, saves, stores, out>>

\* wo.Positions(i, i+batchSize-1) finds no nonce, keeping only this call
PositionsNoneLive ==
    /\ pc = "positions"
    /\ calls' = <<[start |-> i, end |-> RangeEnd(i), res |-> "none", nonce |-> Nil,
                  session |-> session, lastPosition |-> p.lastPosition]>>
    /\ i' = NextBatch(i)
    /\ pc' = "loopCond"
    /\ UNCHANGED rdVars
    /\ UNCHANGED <<build, disk, disk0, p, session, closes, saves, stores, ret, out>>

\* wo.Positions(i, i+batchSize-1) finds a nonce, keeping only this call
PositionsNonceLive ==
    /\ pc = "positions"
    /\ \E v \in {i, RangeEnd(i)} :
         /\ calls' = <<[start |-> i, end |-> RangeEnd(i), res |-> "nonce",
                        nonce |-> Ptr(v), session |-> session,
                        lastPosition |-> p.lastPosition]>>
         /\ p' = [p EXCEPT !.nonce = Ptr(v)]
    /\ ret' = "nil"
    /\ pc' = "deferSave"
    /\ UNCHANGED rdVars
    /\ UNCHANGED <<build, disk, disk0, i, session, closes, saves, stores, out>>

LiveNext ==
    \/ NewParams
    \/ OracleNewOk
    \/ OracleNewErr
    \/ InitLastPosition
    \/ NilLoggerPanic
    \/ LoopHeadLive
    \/ PositionsErrLive
    \/ PositionsNoneLive
    \/ PositionsNonceLive
    \/ SaveMetadata
    \/ Close
    \/ RunReport

\* the command is one sequential process: it takes its next step whenever it
\* has one
LiveSpec == Init /\ [][LiveNext]_vars /\ WF_vars(LiveNext)

\* the oracle reported a nonce or returned an error
OracleAnswered == calls # <<>> /\ Last(calls).res # "none"

\* C14: exhaustion terminates: once the batch loop is entered, either the
\* oracle reports a nonce or an error, or the loop eventually ends, the
\* function returns nil and the metadata is saved.
C14_ExhaustionTerminates ==
    (pc = "loopCond") ~>
        (OracleAnswered \/ (GenerateNonceReturned /\ ret = "nil" /\ Len(saves) = 1))


\* ------------------------------------------------------ parsePost: actions

\* genonce is idle while parsePost runs
CtlIdle ==
    /\ build \in Builds
    /\ disk = [state |-> "missing"]
    /\ disk0 = disk
    /\ p = ZeroParams
    /\ pc = "idle"
    /\ i = 0
    /\ session = "none"
    /\ closes = 0
    /\ calls = <<>>
    /\ saves = <<>>
    /\ stores = <<>>
    /\ ret = "none"
    /\ out = <<>>

RdInit ==
    /\ \/ rkind = "valid" /\ rfile \in ValidFiles
       \/ rkind = "corrupt" /\ rfile \in CorruptFiles
       \/ rkind = "short" /\ rfile \in ShortFiles
    /\ rpc = "open"
    /\ data = <<>>
    /\ off = 0
    /\ checksum = {}
    /\ saved = <<>>
    /\ nreads = <<>>
    /\ rres = [err |-> "none", data |-> <<>>]
    /\ post = [err |-> "none", dumped |-> FALSE]

\* the bytes one Read call may return for a buffer of n bytes with avail bytes
\* left in the file: none for an empty buffer, otherwise at least one and at
\* most the buffer (io.Reader: a Read may return fewer bytes than asked for)
ReadCounts(n, avail) ==
    IF n = 0 THEN {0} ELSE 1..(IF n < avail THEN n ELSE avail)

\* the buffer after a Read that returned the next n bytes of the file
Filled(buf, f, at, n) ==
    [k \in 1..Len(buf) |-> IF k <= n THEN f[at + k] ELSE buf[k]]

\* os.Open or file.Stat fails
OpenErr ==
    /\ rpc = "open"
    /\ \E e \in {"open file", "failed to get file info"} :
         rres' = [err |-> e, data |-> <<>>]
    /\ rpc' = "returned"
    /\ UNCHANGED <<rfile, rkind, data, off, checksum, saved, nreads, post>>
    /\ UNCHANGED ctlVars

\* OpenStat with the size check off by one: fInfo.Size() <= crc64.Size
OpenStat_OffByOne ==
    /\ rpc = "open"
    /\ IF Len(rfile) <= Crc64Size
         THEN /\ rres' = [err |-> "too small", data |-> <<>>]
              /\ rpc' = "returned"
              /\ UNCHANGED <<data, checksum>>
         ELSE /\ data' = Zeros(Len(rfile) - Crc64Size)
              /\ checksum' = {}
              /\ rpc' = "readData"
              /\ rres' = rres
    /\ UNCHANGED <<rfile, rkind, off, saved, nreads, post>>
    /\ UNCHANGED ctlVars

\* os.Open, file.Stat, the size check, and the allocation of data and of the
\* checksum digest
OpenStat ==
    /\ rpc = "open"
    /\ IF Len(rfile) < Crc64Size
         THEN /\ rres' = [err |-> "too small", data |-> <<>>]
              /\ rpc' = "returned"
              /\ UNCHANGED <<data, checksum>>
         ELSE /\ data' = Zeros(Len(rfile) - Crc64Size)
              /\ checksum' = {}
              /\ rpc' = "readData"
              /\ rres' = rres
    /\ UNCHANGED <<rfile, rkind, off, saved, nreads, post>>
    /\ UNCHANGED ctlVars

\* io.TeeReader(file, checksum).Read(data): one Read call on the file; the
\* bytes it returned are written to the checksum
ReadData ==
    /\ rpc = "readData"
    /\ \E n \in ReadCounts(Len(data), Len(rfile) - off) :
         /\ data' = Filled(data, rfile, off, n)
         /\ checksum' = IF n > 0 THEN Update(checksum, SubSeq(rfile, off + 1, off + n))
                                 ELSE checksum
         /\ off' = off + n
         /\ nreads' = Append(nreads, n)
    /\ saved' = Zeros(Crc64Size)
    /\ rpc' = "readSaved"
    /\ UNCHANGED <<rfile, rkind, rres, post>>
    /\ UNCHANGED ctlVars

\* the Read call on the file returns an error
ReadDataErr ==
    /\ rpc = "readData"
    /\ rres' = [err |-> "read file", data |-> <<>>]
    /\ rpc' = "returned"
    /\ UNCHANGED <<rfile, rkind, data, off, checksum, saved, nreads, post>>
    /\ UNCHANGED ctlVars

\* file.Read(saved): one Read call at the current offset; then
\* binary.BigEndian.Uint64(saved) is compared with checksum.Sum64()
ReadSaved ==
    /\ rpc = "readSaved"
    /\ \E n \in ReadCounts(Len(saved), Len(rfile) - off) :
         /\ saved' = Filled(saved, rfile, off, n)
         /\ off' = off + n
         /\ nreads' = Append(nreads, n)
         /\ rres' = IF Uint64BE(Filled(saved, rfile, off, n)) # checksum
                      THEN [err |-> "wrong checksum", data |-> <<>>]
                      ELSE [err |-> "none", data |-> data]
    /\ rpc' = "returned"
    /\ UNCHANGED <<rfile, rkind, data, checksum, post>>
    /\ UNCHANGED ctlVars

\* the second Read call returns an error
ReadSavedErr ==
    /\ rpc = "readSaved"
    /\ rres' = [err |-> "read checksum", data |-> <<>>]
    /\ rpc' = "returned"
    /\ UNCHANGED <<rfile, rkind, data, off, checksum, saved, nreads, post>>
    /\ UNCHANGED ctlVars

\* load: the error of read is wrapped, otherwise codec.Decode(data, dst)
\* decodes the payload or fails
Load ==
    /\ rpc = "returned"
    /\ IF rres.err # "none"
         THEN post' = [post EXCEPT !.err = "reading file"]
         ELSE \E e \in {"none", "decoding"} : post' = [post EXCEPT !.err = e]
    /\ rpc' = "loaded"
    /\ UNCHANGED <<rfile, rkind, data, off, checksum, saved, nreads, rres>>
    /\ UNCHANGED ctlVars

\* parsePost.Run after load: the error, if any, is printed, and the record is
\* dumped
Dump ==
    /\ rpc = "loaded"
    /\ out' = IF post.err # "none" THEN Append(out, "loading post: " \o post.err) ELSE out
    /\ post' = [post EXCEPT !.dumped = TRUE]
    /\ rpc' = "done"
    /\ UNCHANGED <<rfile, rkind, data, off, checksum, saved, nreads, rres>>
    /\ UNCHANGED <<build, disk, disk0, p, pc, i, session, closes, calls, saves, stores, ret>>

ReadInit == CtlIdle /\ RdInit

ReadNext ==
    \/ OpenErr
    \/ OpenStat
    \/ ReadData
    \/ ReadDataErr
    \/ ReadSaved
    \/ ReadSavedErr
    \/ Load
    \/ Dump

ReadSpec == ReadInit /\ [][ReadNext]_vars

\* ----------------------------------------------------- parsePost: properties

\* the file has the layout payload || BE64(crc64-iso(payload))
WellFormed(f) == Len(f) >= Crc64Size /\ StoredChecksum(f) = BE64(Crc64(PayloadOf(f)))

\* read returned to load
ReadReturned == rpc \in {"returned", "loaded", "done"}

\* read returned an I/O error of the file system
IOFailed == rres.err \in {"open file", "failed to get file info", "read file", "read checksum"}

\* C9: reader round-trip: a file holding a payload followed by the big-endian
\* CRC-64/ISO of the payload is read back as exactly that payload, with no
\* error.
C9_RoundTrip ==
    (ReadReturned /\ rkind = "valid" /\ ~IOFailed) =>
        /\ rres.err = "none"
        /\ rres.data = PayloadOf(rfile)

\* C10: corruption detection: a valid file with one byte changed is refused
\* with a checksum mismatch and no payload, and read returns a payload only
\* when the stored trailing checksum equals the checksum of the payload.
C10_CorruptionDetected ==
    /\ (ReadReturned /\ rkind = "corrupt" /\ ~IOFailed) =>
         /\ rres.err = "wrong checksum"
         /\ rres.data = <<>>
    /\ (ReadReturned /\ rres.err = "none") => WellFormed(rfile)

\* C11: size boundary: every file of 7 bytes or fewer is refused as too small,
\* and the file of exactly 8 bytes holding the checksum of the empty payload
\* is read with no error as the empty payload.
C11_SizeBoundary ==
    (ReadReturned /\ ~IOFailed) =>
        /\ Len(rfile) < Crc64Size => rres = [err |-> "too small", data |-> <<>>]
        /\ rfile = WriteFile(<<>>) => rres = [err |-> "none", data |-> <<>>]

\* read returned the empty payload of the 8-byte file, its checksum Read
\* having returned 3 of the 8 bytes
C11_Witness ==
    /\ rpc = "returned"
    /\ rfile = WriteFile(<<>>)
    /\ Len(rfile) = Crc64Size
    /\ nreads = <<0, 3>>
    /\ rres = [err |-> "none", data |-> <<>>]

\* C12: parsePost aborts on error: when load fails (reading, checksum or
\* decoding), the command reports the error and dumps no record.
C12_AbortsOnError ==
    (rpc = "done" /\ post.err # "none") =>
        /\ out # <<>>
        /\ ~post.dumped

\* C15: exact reads under short reads: whenever read reaches the comparison,
\* data holds exactly the first n-8 bytes of the file, all of them were fed to
\* the checksum, and saved holds exactly the last 8 bytes, however few bytes
\* each Read call returned.
C15_ExactReads ==
    (ReadReturned /\ rres.err \in {"none", "wrong checksum"}) =>
        /\ data = PayloadOf(rfile)
        /\ checksum = Crc64(PayloadOf(rfile))
        /\ saved = StoredChecksum(rfile)

====
